---- MODULE Spec2Model ----
(***************************************************************************)
(* Signal -> backtest -> trades pipeline of the repository:                *)
(*   strategies/base_strategy.py, strategies/buy_hold.py,                  *)
(*   strategies/momentum.py, utils/backtester.py, and the near-duplicate   *)
(*   classes of quant_a_module.py.                                         *)
(*                                                                         *)
(* A pandas column is a sequence indexed 1..n: bar t of the source (0      *)
(* based) is element t+1 here.  A cell is an exact rational <<num, den>>   *)
(* in lowest terms with den > 0; den = 0 encodes the IEEE special values   *)
(* the code produces: <<0,0>> is NaN, <<1,0>> is +inf, <<-1,0>> is -inf.   *)
(* Binary64 rounding is not modelled: sums, products and quotients are     *)
(* exact.                                                                  *)
(***************************************************************************)
EXTENDS Integers, Sequences, FiniteSets, TLC

(* ------------------------------ bounds --------------------------------- *)
\* longest generated bar series
MaxBars == 3
\* closes of the generated bar series range over 1..MaxClose
MaxClose == 2
\* rolling windows / RSI periods range over 1..MaxWindow
MaxWindow == 2

(* --------------------------- float arithmetic -------------------------- *)
NaN == <<0, 0>>
Zero == <<0, 1>>
One == <<1, 1>>

Abs(x) == IF x < 0 THEN -x ELSE x
Sign(x) == IF x < 0 THEN -1 ELSE IF x > 0 THEN 1 ELSE 0

RECURSIVE GCD(_, _)
GCD(a, b) == IF b = 0 THEN a ELSE GCD(b, a % b)

\* the float with value n/d (d = 0: NaN or a signed infinity)
Norm(n, d) ==
  IF d = 0 THEN <<Sign(n), 0>>
  ELSE LET g == GCD(Abs(n), Abs(d))
           s == Sign(d)
       IN <<(s * n) \div g, (s * d) \div g>>

R(i) == <<i, 1>>
IsNaN(a) == a = NaN
IsInf(a) == a[2] = 0 /\ a[1] # 0
IsFinite(a) == a[2] # 0

RNeg(a) == <<-a[1], a[2]>>
RAdd(a, b) ==
  IF IsNaN(a) \/ IsNaN(b) THEN NaN
  ELSE IF IsInf(a) /\ IsInf(b) THEN (IF a = b THEN a ELSE NaN)
  ELSE IF IsInf(a) THEN a
  ELSE IF IsInf(b) THEN b
  ELSE LET g == GCD(a[2], b[2])
       IN Norm(a[1] * (b[2] \div g) + b[1] * (a[2] \div g),
               (a[2] \div g) * b[2])
RSub(a, b) == RAdd(a, RNeg(b))
RMul(a, b) ==
  IF IsNaN(a) \/ IsNaN(b) THEN NaN
  ELSE IF IsInf(a) \/ IsInf(b) THEN Norm(Sign(a[1]) * Sign(b[1]), 0)
  ELSE LET g1 == GCD(Abs(a[1]), b[2])
           g2 == GCD(Abs(b[1]), a[2])
       IN Norm((a[1] \div g1) * (b[1] \div g2),
               (a[2] \div g2) * (b[2] \div g1))
\* 1/b: 1/0 = inf, 1/inf = 0, 1/NaN = NaN
RInv(b) == Norm(b[2], b[1])
RDiv(a, b) == RMul(a, RInv(b))

\* comparisons are False as soon as one side is NaN
RLt(a, b) ==
  /\ ~IsNaN(a)
  /\ ~IsNaN(b)
  /\ IF IsInf(a) /\ IsInf(b) THEN a[1] < b[1]
     ELSE IF IsInf(a) THEN a[1] < 0
     ELSE IF IsInf(b) THEN b[1] > 0
     ELSE LET g == GCD(a[2], b[2])
          IN a[1] * (b[2] \div g) < b[1] * (a[2] \div g)
RGt(a, b) == RLt(b, a)
REq(a, b) == ~IsNaN(a) /\ ~IsNaN(b) /\ a = b
RLe(a, b) == RLt(a, b) \/ REq(a, b)
RMax(a, b) == IF RLt(a, b) THEN b ELSE a

(* ----------------------------- pandas Series --------------------------- *)
\* a column as a stored array: the cells are computed once, when it is built
Series(f) == f \o <<>>

\* Series.pct_change(): NaN on the first row, then s[t]/s[t-1] - 1
pct_change(s) ==
  Series([t \in 1..Len(s) |-> IF t = 1 THEN NaN ELSE RSub(RDiv(s[t], s[t - 1]), One)])

\* Series.shift(1): NaN on the first row, then the previous row
shift1(s) == Series([t \in 1..Len(s) |-> IF t = 1 THEN NaN ELSE s[t - 1]])

\* Series.diff(): NaN on the first row, then s[t] - s[t-1]
diff(s) == Series([t \in 1..Len(s) |-> IF t = 1 THEN NaN ELSE RSub(s[t], s[t - 1])])

\* element-wise a * b, c + a, c * a, (a - b) / b
SeriesMul(a, b) == Series([t \in 1..Len(a) |-> RMul(a[t], b[t])])
ScalarAdd(c, a) == Series([t \in 1..Len(a) |-> RAdd(c, a[t])])
ScalarMul(c, a) == Series([t \in 1..Len(a) |-> RMul(c, a[t])])

\* product of the non-NaN cells of s[1..t]
RECURSIVE ProdValid(_, _)
ProdValid(s, t) ==
  IF t = 0 THEN One
  ELSE IF IsNaN(s[t]) THEN ProdValid(s, t - 1)
  ELSE RMul(ProdValid(s, t - 1), s[t])

\* Series.cumprod() (skipna): NaN where the cell is NaN, NaN cells skipped
cumprod(s) ==
  Series([t \in 1..Len(s) |-> IF IsNaN(s[t]) THEN NaN ELSE ProdValid(s, t)])

\* maximum of the non-NaN cells of s[1..t], NaN when there is none
RECURSIVE MaxValid(_, _)
MaxValid(s, t) ==
  IF t = 0 THEN NaN
  ELSE LET m == MaxValid(s, t - 1)
       IN IF IsNaN(s[t]) THEN m
          ELSE IF IsNaN(m) THEN s[t]
          ELSE RMax(m, s[t])

\* Series.expanding().max() (min_periods = 1)
expanding_max(s) == Series([t \in 1..Len(s) |-> MaxValid(s, t)])

\* Series.cummax() (skipna): as expanding max, but NaN where the cell is NaN
cummax(s) ==
  Series([t \in 1..Len(s) |-> IF IsNaN(s[t]) THEN NaN ELSE MaxValid(s, t)])

\* sum of s[lo..hi]
RECURSIVE SumRange(_, _, _)
SumRange(s, lo, hi) ==
  IF hi < lo THEN Zero ELSE RAdd(SumRange(s, lo, hi - 1), s[hi])

\* mutant: the mean of the w rows from t on
rolling_mean_Forward(s, w) ==
  Series([t \in 1..Len(s) |->
     IF t + w - 1 > Len(s) THEN NaN
     ELSE RDiv(SumRange(s, t, t + w - 1), R(w))])

\* Series.rolling(window = w).mean(): NaN until w observations are in the
\* window, NaN when a cell of the window is NaN
rolling_mean(s, w) ==
  Series([t \in 1..Len(s) |->
     IF t < w THEN NaN ELSE RDiv(SumRange(s, t - w + 1, t), R(w))])

\* Series.fillna(method = 'ffill').fillna(0)
RECURSIVE LastValid(_, _)
LastValid(s, t) ==
  IF t = 0 THEN Zero
  ELSE IF IsNaN(s[t]) THEN LastValid(s, t - 1)
  ELSE s[t]
\* mutant: the rows before the first value are filled with 1
ffill_fillna1(s) ==
  Series([t \in 1..Len(s) |->
     IF \A u \in 1..t : IsNaN(s[u]) THEN One ELSE LastValid(s, t)])

\* the forward fill, then 0 on the rows before the first value
ffill_fillna0(s) == Series([t \in 1..Len(s) |-> LastValid(s, t)])

\* Series.fillna(0)
fillna0(s) == Series([t \in 1..Len(s) |-> IF IsNaN(s[t]) THEN Zero ELSE s[t]])

\* Series.replace(0, np.nan)
replace0_nan(s) == Series([t \in 1..Len(s) |-> IF s[t] = Zero THEN NaN ELSE s[t]])

\* a DataFrame: a function from column names to columns
AddCol(df, name, col) == (name :> col) @@ df
HasCol(df, name) == name \in DOMAIN df
NoFrame == [Close |-> <<>>]

(* ------------------------------ inputs --------------------------------- *)
\* Backtester.__init__ / BaseStrategy.__init__: initial_capital = 10000
DefaultCapital == 10000
\* RSIStrategy.__init__: oversold = 30, overbought = 70
DefaultOversold == 30
DefaultOverbought == 70

\* the Close series of section 8's scenarios
ScenarioClose == <<100, 102, 101, 105, 103>>

\* Close columns the caller may pass in (positive prices), as integers
BarSeries ==
  UNION {[1..n -> 1..MaxClose] : n \in 1..MaxBars} \cup {ScenarioClose}

\* initial_capital is not validated anywhere: any number gets through
Capitals == {-100, 0, DefaultCapital}

\* (oversold, overbought) pairs
Thresholds == {<<DefaultOversold, DefaultOverbought>>, <<40, 60>>}

Windows == 1..MaxWindow

\* the 0/1 Position columns of length n
PositionColumns(n) == [1..n -> {Zero, One}]

CloseColumn(b) == Series([t \in 1..Len(b) |-> R(b[t])])

(* --------------------------- strategies/ ------------------------------- *)
\* mutant: self.data = data, the caller's own frame
NewStrategy_NoCopy(cls, params, b) ==
  [cls |-> cls, params |-> params, data |-> [Close |-> CloseColumn(b)],
   own_copy |-> FALSE]

\* BaseStrategy.__init__ (and its subclasses' __init__, and
\* quant_a_module.Strategy.__init__): self.data = data.copy(); own_copy
\* tells that self.data is another object than the caller's frame
NewStrategy(cls, params, b) ==
  [cls |-> cls, params |-> params, data |-> [Close |-> CloseColumn(b)],
   own_copy |-> TRUE]

NoStrategy ==
  [cls |-> "None", params |-> <<>>, data |-> NoFrame, own_copy |-> TRUE]

\* BuyHoldStrategy.generate_signals: self.data['Position'] = 1
BuyHold_generate_signals(data) ==
  AddCol(data, "Position", Series([t \in 1..Len(data.Close) |-> One]))

\* mutant: 1 on the rows where a >= b
WhereGreater_OrEqual(a, b) ==
  Series([t \in 1..Len(a) |-> IF RLt(a[t], b[t]) THEN Zero ELSE One])

\* column = 0, then 1 on the rows where a > b
WhereGreater(a, b) ==
  Series([t \in 1..Len(a) |-> IF RGt(a[t], b[t]) THEN One ELSE Zero])

\* MomentumStrategy.generate_signals
Momentum_generate_signals(data, short_window, long_window) ==
  LET sma_short == rolling_mean(data.Close, short_window)
      sma_long == rolling_mean(data.Close, long_window)
      position == WhereGreater(sma_short, sma_long)
  IN AddCol(AddCol(AddCol(data, "SMA_Short", sma_short),
                   "SMA_Long", sma_long),
            "Position", ffill_fillna0(position))

\* delta.where(delta > 0, 0)
GainOf(delta) ==
  Series([t \in 1..Len(delta) |-> IF RGt(delta[t], Zero) THEN delta[t] ELSE Zero])
\* -delta.where(delta < 0, 0)
LossOf(delta) ==
  Series([t \in 1..Len(delta) |-> IF RLt(delta[t], Zero) THEN RNeg(delta[t]) ELSE Zero])

\* mutant: rs = loss / gain
RSIOf_Inverted(close, period) ==
  LET delta == diff(close)
      gain == rolling_mean(GainOf(delta), period)
      loss == rolling_mean(LossOf(delta), period)
  IN Series([t \in 1..Len(close) |->
        RSub(R(100), RDiv(R(100), RAdd(One, RDiv(loss[t], gain[t]))))])

\* rsi = 100 - (100 / (1 + rs)), rs = gain / loss
RSIOf(close, period) ==
  LET delta == diff(close)
      gain == rolling_mean(GainOf(delta), period)
      loss == rolling_mean(LossOf(delta), period)
  IN Series([t \in 1..Len(close) |->
        RSub(R(100), RDiv(R(100), RAdd(One, RDiv(gain[t], loss[t]))))])

\* RSIStrategy.calculate_rsi
RSI_calculate_rsi(data, period) == RSIOf(data.Close, period)

\* Position = 0; 1 where RSI < oversold; 0 where RSI > overbought
RSIRawSignal(rsi, oversold, overbought) ==
  Series([t \in 1..Len(rsi) |->
     IF RGt(rsi[t], R(overbought)) THEN Zero
     ELSE IF RLt(rsi[t], R(oversold)) THEN One
     ELSE Zero])

\* RSIStrategy.generate_signals
\* mutant: the forward fill without replace(0, nan)
RSI_generate_signals_NoReplace(data, period, oversold, overbought) ==
  LET rsi == RSI_calculate_rsi(data, period)
      raw == RSIRawSignal(rsi, oversold, overbought)
      position == ffill_fillna0(raw)
  IN AddCol(AddCol(data, "RSI", rsi), "Position", position)

RSI_generate_signals(data, period, oversold, overbought) ==
  LET rsi == RSI_calculate_rsi(data, period)
      raw == RSIRawSignal(rsi, oversold, overbought)
      position == ffill_fillna0(replace0_nan(raw))
  IN AddCol(AddCol(data, "RSI", rsi), "Position", position)

\* a caller's own strategy object (Backtester.run takes any object with a
\* generate_signals method): its frame carries the Position column it was
\* built with
Custom_generate_signals(data, position) == AddCol(data, "Position", position)

\* strategy.generate_signals(), dispatched on the class
generate_signals(s) ==
  CASE s.cls = "BuyHoldStrategy" -> BuyHold_generate_signals(s.data)
    [] s.cls = "MomentumStrategy" ->
         Momentum_generate_signals(s.data, s.params[1], s.params[2])
    [] s.cls = "RSIStrategy" ->
         RSI_generate_signals(s.data, s.params[1], s.params[2], s.params[3])
    [] s.cls = "Custom" -> Custom_generate_signals(s.data, s.params)

\* BaseStrategy.backtest: the columns it adds to the strategy's own frame
\* mutant: the position of the same bar earns the bar's return
BaseStrategy_backtest_NoLag(s, initial_capital) ==
  LET d0 == generate_signals(s)
      returns == pct_change(d0.Close)
      strategy_returns == SeriesMul(d0.Position, returns)
      cum_returns == cumprod(ScalarAdd(One, returns))
      cum_strategy == cumprod(ScalarAdd(One, strategy_returns))
      portfolio == ScalarMul(R(initial_capital), cum_strategy)
  IN AddCol(AddCol(AddCol(AddCol(AddCol(d0,
       "Returns", returns),
       "Strategy_Returns", strategy_returns),
       "Cumulative_Returns", cum_returns),
       "Cumulative_Strategy_Returns", cum_strategy),
       "Portfolio_Value", portfolio)

BaseStrategy_backtest(s, initial_capital) ==
  LET d0 == generate_signals(s)
      returns == pct_change(d0.Close)
      strategy_returns == SeriesMul(shift1(d0.Position), returns)
      cum_returns == cumprod(ScalarAdd(One, returns))
      cum_strategy == cumprod(ScalarAdd(One, strategy_returns))
      portfolio == ScalarMul(R(initial_capital), cum_strategy)
  IN AddCol(AddCol(AddCol(AddCol(AddCol(d0,
       "Returns", returns),
       "Strategy_Returns", strategy_returns),
       "Cumulative_Returns", cum_returns),
       "Cumulative_Strategy_Returns", cum_strategy),
       "Portfolio_Value", portfolio)

(* ------------------------- utils/backtester.py ------------------------- *)
\* Backtester.__init__
NewBacktester(cls, initial_capital) ==
  [cls |-> cls, initial_capital |-> initial_capital,
   has_results |-> FALSE, results |-> NoFrame]

\* mutant: the price difference instead of the relative change
ReturnsColumn_Diff(close) == diff(close)

\* self.data['Returns'] = self.data['Close'].pct_change()
ReturnsColumn(close) == pct_change(close)

\* mutant: the position of the bar itself, without the shift
StrategyReturnsColumn_NoLag(position, returns) == SeriesMul(position, returns)

\* self.data['Strategy_Returns'] = self.data['Position'].shift(1) * self.data['Returns']
StrategyReturnsColumn(position, returns) == SeriesMul(shift1(position), returns)

\* (1 + column).cumprod()
CumulativeColumn(col) == cumprod(ScalarAdd(One, col))

\* self.initial_capital * column
ValueColumn(initial_capital, cum) == ScalarMul(R(initial_capital), cum)

\* self.data['Portfolio_Value'].expanding().max()
RunningMaxColumn(portfolio) == expanding_max(portfolio)

\* (Portfolio_Value - Running_Max) / Running_Max
DrawdownColumn(portfolio, running_max) ==
  Series([t \in 1..Len(portfolio) |->
     RDiv(RSub(portfolio[t], running_max[t]), running_max[t])])

\* Backtester.run, from the frame strategy.generate_signals() returned
Backtester_run(signals_data, initial_capital) ==
  LET returns == ReturnsColumn(signals_data.Close)
      strategy_returns == StrategyReturnsColumn(signals_data.Position, returns)
      cum_returns == CumulativeColumn(returns)
      cum_strategy == CumulativeColumn(strategy_returns)
      portfolio == ValueColumn(initial_capital, cum_strategy)
      buy_hold == ValueColumn(initial_capital, cum_returns)
      running_max == RunningMaxColumn(portfolio)
      drawdown == DrawdownColumn(portfolio, running_max)
  IN AddCol(AddCol(AddCol(AddCol(AddCol(AddCol(AddCol(AddCol(signals_data,
       "Returns", returns),
       "Strategy_Returns", strategy_returns),
       "Cumulative_Returns", cum_returns),
       "Cumulative_Strategy_Returns", cum_strategy),
       "Portfolio_Value", portfolio),
       "Buy_Hold_Value", buy_hold),
       "Running_Max", running_max),
       "Drawdown", drawdown)

\* the kinds of index a frame carries: a DatetimeIndex of daily bars or of
\* hourly bars (the app's intervals), or a RangeIndex
IndexKinds == {"daily", "intraday", "integer"}
MinutesPerDay == 1440
MinutesPerBar == 60

\* the index label of row t (1-based): a bar number from 0, or a Timestamp
\* in minutes since the first bar
IndexLabel(kind, t) ==
  CASE kind = "integer" -> t - 1
    [] kind = "daily" -> MinutesPerDay * (t - 1)
    [] kind = "intraday" -> MinutesPerBar * (t - 1)

\* mutant: the return relative to the exit price
Trade_OnExitPrice(kind, results, entry_idx, idx) ==
  LET entry_price == results.Close[entry_idx]
      exit_price == results.Close[idx]
  IN [EntryDate |-> IndexLabel(kind, entry_idx),
      ExitDate |-> IndexLabel(kind, idx),
      EntryPrice |-> entry_price, ExitPrice |-> exit_price,
      ReturnPct |-> RMul(RDiv(RSub(exit_price, entry_price), exit_price),
                         R(100)),
      Duration |-> IF kind = "integer" THEN 1
                   ELSE (IndexLabel(kind, idx) - IndexLabel(kind, entry_idx))
                          \div MinutesPerDay]

\* one row of the frame Backtester.get_trades returns. Duration is
\* (idx - entry_idx).days when the difference has .days (a Timedelta: its
\* whole days), else 1 (the difference of two ints has none)
Trade(kind, results, entry_idx, idx) ==
  LET entry_price == results.Close[entry_idx]
      exit_price == results.Close[idx]
  IN [EntryDate |-> IndexLabel(kind, entry_idx),
      ExitDate |-> IndexLabel(kind, idx),
      EntryPrice |-> entry_price, ExitPrice |-> exit_price,
      ReturnPct |-> RMul(RDiv(RSub(exit_price, entry_price), entry_price),
                         R(100)),
      Duration |-> IF kind = "integer" THEN 1
                   ELSE (IndexLabel(kind, idx) - IndexLabel(kind, entry_idx))
                          \div MinutesPerDay]

\* the loop of Backtester.get_trades after rows 1..t: entry_idx = 0 is None
RECURSIVE TradeLoop(_, _, _, _)
TradeLoop(kind, results, changes, t) ==
  IF t = 0 THEN [trades |-> <<>>, entry_idx |-> 0]
  ELSE LET st == TradeLoop(kind, results, changes, t - 1)
       IN IF REq(changes[t], One)
          THEN [trades |-> st.trades, entry_idx |-> t]
          ELSE IF REq(changes[t], R(-1)) /\ st.entry_idx # 0
          THEN [trades |-> Append(st.trades, Trade(kind, results, st.entry_idx, t)),
                entry_idx |-> 0]
          ELSE st

\* mutant: a position still open after the last row is reported as a trade
Backtester_get_trades_ReportOpen(kind, results) ==
  LET n == Len(results.Position)
      st == TradeLoop(kind, results, diff(results.Position), n)
  IN IF st.entry_idx # 0
     THEN Append(st.trades, Trade(kind, results, st.entry_idx, n))
     ELSE st.trades

\* mutant: the position before the first row is taken to be 0
Backtester_get_trades_FromFlat(kind, results) ==
  LET d == diff(results.Position)
      position_changes ==
        Series([t \in 1..Len(d) |-> IF t = 1 THEN results.Position[1] ELSE d[t]])
  IN TradeLoop(kind, results, position_changes, Len(position_changes)).trades

\* mutant: the latest trade comes first
Backtester_get_trades_NewestFirst(kind, results) ==
  LET position_changes == diff(results.Position)
      rows == TradeLoop(kind, results, position_changes,
                        Len(position_changes)).trades
  IN [i \in 1..Len(rows) |-> rows[Len(rows) + 1 - i]]

\* Backtester.get_trades on a Backtester that has results
Backtester_get_trades(kind, results) ==
  LET position_changes == diff(results.Position)
  IN TradeLoop(kind, results, position_changes, Len(position_changes)).trades

(* -------------------------- quant_a_module.py -------------------------- *)
\* np.where(a > b, 1, 0)
QA_WhereGreater(a, b) ==
  Series([t \in 1..Len(a) |-> IF RGt(a[t], b[t]) THEN One ELSE Zero])

\* quant_a_module.BuyHoldStrategy.generate_signals
QA_BuyHold_generate_signals(data) ==
  AddCol(data, "Signal", Series([t \in 1..Len(data.Close) |-> One]))

\* quant_a_module.MomentumStrategy.generate_signals
QA_Momentum_generate_signals(data, short_window, long_window) ==
  LET sma_short == rolling_mean(data.Close, short_window)
      sma_long == rolling_mean(data.Close, long_window)
  IN AddCol(AddCol(AddCol(data, "SMA_Short", sma_short),
                   "SMA_Long", sma_long),
            "Signal", QA_WhereGreater(sma_short, sma_long))

\* np.where(RSI < oversold, 1, 0), then np.where(RSI > overbought, 0, Signal)
QA_RSISignal(rsi, oversold, overbought) ==
  Series([t \in 1..Len(rsi) |->
     IF RGt(rsi[t], R(overbought)) THEN Zero
     ELSE IF RLt(rsi[t], R(oversold)) THEN One
     ELSE Zero])

\* quant_a_module.RSIStrategy.generate_signals
QA_RSI_generate_signals(data, period, oversold, overbought) ==
  LET rsi == RSIOf(data.Close, period)
  IN AddCol(AddCol(data, "RSI", rsi),
            "Signal", QA_RSISignal(rsi, oversold, overbought))

\* strategy_instance.generate_signals(), dispatched on the class
QA_generate_signals(s) ==
  CASE s.cls = "QA_BuyHoldStrategy" -> QA_BuyHold_generate_signals(s.data)
    [] s.cls = "QA_MomentumStrategy" ->
         QA_Momentum_generate_signals(s.data, s.params[1], s.params[2])
    [] s.cls = "QA_RSIStrategy" ->
         QA_RSI_generate_signals(s.data, s.params[1], s.params[2], s.params[3])

\* df['Strategy_Returns'] = (df['Signal'].shift(1) * df['Returns']).fillna(0)
QA_StrategyReturnsColumn(signal, returns) ==
  fillna0(SeriesMul(shift1(signal), returns))

\* (df['Portfolio_Value'] - df['CumMax']) / df['CumMax'] * 100
QA_DrawdownColumn(portfolio, cum_max) ==
  Series([t \in 1..Len(portfolio) |->
     RMul(RDiv(RSub(portfolio[t], cum_max[t]), cum_max[t]), R(100))])

\* quant_a_module.Backtester.run, on the frame generate_signals() returned
QA_Backtester_run(df, initial_capital) ==
  LET returns == pct_change(df.Close)
      strategy_returns == QA_StrategyReturnsColumn(df.Signal, returns)
      portfolio == ScalarMul(R(initial_capital),
                             cumprod(ScalarAdd(One, strategy_returns)))
      cum_max == cummax(portfolio)
  IN AddCol(AddCol(AddCol(AddCol(AddCol(AddCol(df,
       "Returns", returns),
       "Strategy_Returns", strategy_returns),
       "Portfolio_Value", portfolio),
       "CumMax", cum_max),
       "Drawdown", QA_DrawdownColumn(portfolio, cum_max)),
       "Position", diff(df.Signal))

(* ----------------------------- utils/metrics.py ------------------------ *)
\* a float that holds a square root: c * sqrt(rad), c and rad rational;
\* rounded marks round(c * sqrt(rad), 2) of an irrational value, which is
\* kept as that term. NaN and 0 have one form each.
Real(c, rad) ==
  IF IsNaN(c) \/ IsNaN(rad) THEN [c |-> NaN, rad |-> One, rounded |-> FALSE]
  ELSE IF c = Zero \/ rad = Zero
  THEN [c |-> Zero, rad |-> One, rounded |-> FALSE]
  ELSE [c |-> c, rad |-> rad, rounded |-> FALSE]
RealZero == Real(Zero, One)
RealNaN == Real(NaN, One)

\* risk_free_rate = 0.02, periods_per_year = 252, and the literal 252 of
\* the annualised return
RiskFreeRate == <<1, 50>>
PeriodsPerYear == 252
TradingDays == 252

RAbs(x) == <<Abs(x[1]), x[2]>>
RMin(a, b) == IF RLt(b, a) THEN b ELSE a

\* Series.mean(): NaN for an empty series
mean(s) ==
  IF Len(s) = 0 THEN NaN ELSE RDiv(SumRange(s, 1, Len(s)), R(Len(s)))

\* the square of Series.std() (ddof = 1): NaN for fewer than 2 observations
variance(s) ==
  IF Len(s) < 2 THEN NaN
  ELSE LET m == mean(s)
           sq == Series([t \in 1..Len(s) |->
                    RMul(RSub(s[t], m), RSub(s[t], m))])
       IN RDiv(SumRange(sq, 1, Len(sq)), R(Len(s) - 1))

\* minimum of the non-NaN cells of s[1..t], NaN when there is none
RECURSIVE MinValid(_, _)
MinValid(s, t) ==
  IF t = 0 THEN NaN
  ELSE LET m == MinValid(s, t - 1)
       IN IF IsNaN(s[t]) THEN m
          ELSE IF IsNaN(m) THEN s[t]
          ELSE RMin(m, s[t])

\* Series.min(), Series.max() (skipna)
SeriesMin(s) == MinValid(s, Len(s))
SeriesMax(s) == MaxValid(s, Len(s))

\* Series.dropna()
dropna(s) == SelectSeq(s, LAMBDA x : ~IsNaN(x))

\* returns - risk_free_rate / periods_per_year
ExcessReturns(returns) ==
  ScalarAdd(RNeg(RDiv(RiskFreeRate, R(PeriodsPerYear))), returns)

\* round(x, 2) of a float: half to even, on the exact value
Round2(x) ==
  IF ~IsFinite(x) THEN x
  ELSE LET n == 100 * x[1]
           q == n \div x[2]
           rem == n - q * x[2]
           k == IF 2 * rem < x[2] THEN q
                ELSE IF 2 * rem > x[2] THEN q + 1
                ELSE IF q % 2 = 0 THEN q ELSE q + 1
       IN Norm(k, 100)

\* round(x, 2) of c * sqrt(rad)
RoundReal2(x) ==
  IF x = RealZero \/ x = RealNaN THEN x ELSE [x EXCEPT !.rounded = TRUE]

calculate_returns(prices) == dropna(pct_change(CloseColumn(prices)))

calculate_cumulative_returns(returns) == cumprod(ScalarAdd(One, returns))

\* sqrt(periods_per_year) * mean / std = mean * sqrt(periods_per_year / var)
calculate_sharpe_ratio(returns) ==
  IF Len(returns) = 0 THEN RealZero
  ELSE LET excess_returns == ExcessReturns(returns)
       IN IF REq(variance(excess_returns), Zero) THEN RealZero
          ELSE Real(mean(excess_returns),
                    RDiv(R(PeriodsPerYear), variance(excess_returns)))

\* mutant: the fall measured from the previous value
calculate_max_drawdown_FromPrevious(cumulative_returns) ==
  IF Len(cumulative_returns) = 0 THEN Zero
  ELSE RMul(SeriesMin(pct_change(cumulative_returns)), R(100))

calculate_max_drawdown(cumulative_returns) ==
  IF Len(cumulative_returns) = 0 THEN Zero
  ELSE LET running_max == expanding_max(cumulative_returns)
           drawdown == Series([t \in 1..Len(cumulative_returns) |->
                         RDiv(RSub(cumulative_returns[t], running_max[t]),
                              running_max[t])])
       IN RMul(SeriesMin(drawdown), R(100))

\* std * sqrt(periods_per_year) * 100
calculate_volatility(returns) ==
  IF Len(returns) = 0 THEN RealZero
  ELSE Real(R(100), RMul(R(PeriodsPerYear), variance(returns)))

calculate_sortino_ratio(returns) ==
  IF Len(returns) = 0 THEN RealZero
  ELSE LET excess_returns == ExcessReturns(returns)
           downside_returns ==
             SelectSeq(excess_returns, LAMBDA x : RLt(x, Zero))
       IN IF \/ Len(downside_returns) = 0
             \/ REq(variance(downside_returns), Zero)
          THEN RealZero
          ELSE Real(mean(excess_returns),
                    RDiv(R(PeriodsPerYear), variance(downside_returns)))

calculate_calmar_ratio(returns, cumulative_returns) ==
  IF Len(returns) = 0 THEN Zero
  ELSE LET annual_return == RMul(mean(returns), R(TradingDays * 100))
           max_dd == RAbs(calculate_max_drawdown(cumulative_returns))
       IN IF REq(max_dd, Zero) THEN Zero ELSE RDiv(annual_return, max_dd)

calculate_win_rate(returns) ==
  IF Len(returns) = 0 THEN Zero
  ELSE RMul(RDiv(R(Len(SelectSeq(returns, LAMBDA x : RGt(x, Zero)))),
                 R(Len(returns))),
            R(100))

\* the metrics dictionary, for the return series the function ends up with
\* (strategy_returns, or calculate_returns(prices) when it is None)
generate_performance_summary(returns) ==
  LET cum_returns == calculate_cumulative_returns(returns)
  IN [TotalReturn |->
        IF Len(cum_returns) > 0
        THEN Round2(RMul(RSub(cum_returns[Len(cum_returns)], One), R(100)))
        ELSE Zero,
      AnnualizedReturn |->
        IF Len(returns) > 0
        THEN Round2(RMul(mean(returns), R(TradingDays * 100)))
        ELSE Zero,
      Volatility |-> RoundReal2(calculate_volatility(returns)),
      Sharpe |-> RoundReal2(calculate_sharpe_ratio(returns)),
      Sortino |-> RoundReal2(calculate_sortino_ratio(returns)),
      MaxDrawdown |-> Round2(calculate_max_drawdown(cum_returns)),
      Calmar |-> Round2(calculate_calmar_ratio(returns, cum_returns)),
      WinRate |-> Round2(calculate_win_rate(returns)),
      BestDay |->
        IF Len(returns) > 0
        THEN Round2(RMul(SeriesMax(returns), R(100))) ELSE Zero,
      WorstDay |->
        IF Len(returns) > 0
        THEN Round2(RMul(SeriesMin(returns), R(100))) ELSE Zero]

\* Backtester._calculate_sharpe: the guard is on the spread of the returns
Backtester_calculate_sharpe(returns) ==
  IF Len(returns) = 0 \/ REq(variance(returns), Zero) THEN RealZero
  ELSE LET excess_returns == ExcessReturns(returns)
       IN Real(mean(excess_returns),
               RDiv(R(TradingDays), variance(excess_returns)))

\* mutant: a position still open at the last row counts as a trade
Backtester_get_summary_stats_CountOpen(kind, results, initial_capital) ==
  LET strategy_returns == dropna(results.Strategy_Returns)
      n == Len(results.Portfolio_Value)
  IN [InitialCapital |-> R(initial_capital),
      FinalPortfolioValue |-> results.Portfolio_Value[n],
      TotalReturn |->
        RMul(RSub(RDiv(results.Portfolio_Value[n], R(initial_capital)), One),
             R(100)),
      BuyHoldReturn |->
        RMul(RSub(RDiv(results.Buy_Hold_Value[n], R(initial_capital)), One),
             R(100)),
      NumberOfTrades |-> Len(Backtester_get_trades_ReportOpen(kind, results)),
      WinRate |-> calculate_win_rate(strategy_returns),
      MaxDrawdown |-> RMul(SeriesMin(results.Drawdown), R(100)),
      Sharpe |-> Backtester_calculate_sharpe(strategy_returns)]

\* Backtester.get_summary_stats on a Backtester that has results
Backtester_get_summary_stats(kind, results, initial_capital) ==
  LET strategy_returns == dropna(results.Strategy_Returns)
      n == Len(results.Portfolio_Value)
  IN [InitialCapital |-> R(initial_capital),
      FinalPortfolioValue |-> results.Portfolio_Value[n],
      TotalReturn |->
        RMul(RSub(RDiv(results.Portfolio_Value[n], R(initial_capital)), One),
             R(100)),
      BuyHoldReturn |->
        RMul(RSub(RDiv(results.Buy_Hold_Value[n], R(initial_capital)), One),
             R(100)),
      NumberOfTrades |-> Len(Backtester_get_trades(kind, results)),
      WinRate |-> calculate_win_rate(strategy_returns),
      MaxDrawdown |-> RMul(SeriesMin(results.Drawdown), R(100)),
      Sharpe |-> Backtester_calculate_sharpe(strategy_returns)]

\* quant_a_module.generate_performance_summary, when it returns; a / x for
\* x = c * sqrt(rad) is (a / (c * rad)) * sqrt(rad)
QA_generate_performance_summary(strategy_returns) ==
  LET total_return ==
        RSub(ProdValid(ScalarAdd(One, strategy_returns), Len(strategy_returns)),
             One)
      ann_return == RMul(mean(strategy_returns), R(TradingDays))
      volatility == Real(One, RMul(R(TradingDays), variance(strategy_returns)))
      sharpe == IF volatility # RealZero
                THEN Real(RDiv(ann_return, RMul(volatility.c, volatility.rad)),
                          volatility.rad)
                ELSE RealZero
      cum_returns == cumprod(ScalarAdd(One, strategy_returns))
      cum_max == cummax(cum_returns)
      drawdown == Series([t \in 1..Len(cum_returns) |->
                     RSub(RDiv(cum_returns[t], cum_max[t]), One)])
      max_drawdown == SeriesMin(drawdown)
      win_rate == RMul(RDiv(R(Len(SelectSeq(strategy_returns,
                                            LAMBDA x : RGt(x, Zero)))),
                            R(Len(strategy_returns))),
                       R(100))
  IN [TotalReturn |-> RMul(total_return, R(100)),
      AnnualizedReturn |-> RMul(ann_return, R(100)),
      Volatility |-> Real(RMul(volatility.c, R(100)), volatility.rad),
      Sharpe |-> sharpe,
      MaxDrawdown |-> RMul(max_drawdown, R(100)),
      WinRate |-> win_rate,
      Sortino |-> Real(RMul(sharpe.c, <<3, 2>>), sharpe.rad),
      Calmar |-> IF ~REq(max_drawdown, Zero)
                 THEN RAbs(RDiv(ann_return, max_drawdown)) ELSE Zero,
      BestDay |-> RMul(SeriesMax(strategy_returns), R(100)),
      WorstDay |-> RMul(SeriesMin(strategy_returns), R(100))]

(* ----------------------------- the program ----------------------------- *)
VARIABLES
  bars,       \* the caller's Close column (the DataFrame the app fetched)
  index,      \* the kind of index the caller's DataFrame carries
  strategy,   \* the strategy object, NoStrategy before it is constructed
  backtester, \* the Backtester object; self.data is BacktesterData
  trades,     \* what the last Backtester.get_trades call returned
  metrics     \* the return series given to a metrics function, and what
              \* the last call returned or raised

vars == <<bars, index, strategy, backtester, trades, metrics>>

NoMetrics == [returns |-> <<>>, fn |-> "", raised |-> "", value |-> <<>>]

NoTrades == [called |-> FALSE, had_results |-> FALSE, rows |-> <<>>]

CoreClasses == {"BuyHoldStrategy", "MomentumStrategy", "RSIStrategy", "Custom"}
BaseClasses == {"BuyHoldStrategy", "MomentumStrategy", "RSIStrategy"}
QAClasses == {"QA_BuyHoldStrategy", "QA_MomentumStrategy", "QA_RSIStrategy"}

\* the app builds Backtester(df, initial_capital); nothing has run yet
Init ==
  /\ bars \in BarSeries
  /\ index = "daily"
  /\ \E cls \in {"Backtester", "QA_Backtester"}, c \in Capitals :
       backtester = NewBacktester(cls, c)
  /\ strategy = NoStrategy
  /\ trades = NoTrades
  /\ metrics = NoMetrics

\* Backtester.data: the copy of the caller's frame until run replaces it by
\* the result frame (self.results = self.data are then one object)
BacktesterData ==
  IF backtester.has_results THEN backtester.results
  ELSE [Close |-> CloseColumn(bars)]

\* the frame the caller passed in (df): its own object, unless a strategy
\* holds it without a copy
CallerFrame ==
  IF strategy.own_copy THEN [Close |-> CloseColumn(bars)] ELSE strategy.data

\* the result frames there are: Backtester.run returns self.results;
\* BaseStrategy.backtest and quant_a_module.Backtester.run return the
\* strategy's own frame, with the columns they added
RunDone == backtester.has_results
BacktestDone ==
  strategy.cls \in BaseClasses /\ HasCol(strategy.data, "Portfolio_Value")
QARunDone ==
  strategy.cls \in QAClasses /\ HasCol(strategy.data, "Portfolio_Value")
ResultFrames ==
  (IF RunDone THEN {backtester.results} ELSE {})
    \cup (IF BacktestDone \/ QARunDone THEN {strategy.data} ELSE {})
\* the frames of utils.Backtester.run and BaseStrategy.backtest
CoreResultFrames ==
  (IF RunDone THEN {backtester.results} ELSE {})
    \cup (IF BacktestDone THEN {strategy.data} ELSE {})

Prefix == IF backtester.cls = "QA_Backtester" THEN "QA_" ELSE ""

\* BuyHoldStrategy(df, initial_capital)
ConstructBuyHold ==
  /\ strategy = NoStrategy
  /\ strategy' = NewStrategy(Prefix \o "BuyHoldStrategy", <<>>, bars)
  /\ UNCHANGED <<bars, index, backtester, trades, metrics>>

\* MomentumStrategy(df, initial_capital, short_window, long_window)
ConstructMomentum ==
  /\ strategy = NoStrategy
  /\ \E sw \in Windows, lw \in Windows :
       strategy' = NewStrategy(Prefix \o "MomentumStrategy", <<sw, lw>>, bars)
  /\ UNCHANGED <<bars, index, backtester, trades, metrics>>

\* RSIStrategy(df, initial_capital, period, oversold, overbought)
ConstructRSI ==
  /\ strategy = NoStrategy
  /\ \E period \in Windows, th \in Thresholds :
       strategy' = NewStrategy(Prefix \o "RSIStrategy",
                               <<period, th[1], th[2]>>, bars)
  /\ UNCHANGED <<bars, index, backtester, trades, metrics>>

\* a caller's own strategy, holding any 0/1 Position column
ConstructCustom ==
  /\ strategy = NoStrategy
  /\ backtester.cls = "Backtester"
  /\ \E p \in PositionColumns(Len(bars)) :
       strategy' = NewStrategy("Custom", p, bars)
  /\ UNCHANGED <<bars, index, backtester, trades, metrics>>

\* mutant: run adds its columns to the frame the Backtester already holds
Run_KeepColumns ==
  /\ backtester.cls = "Backtester"
  /\ strategy.cls \in CoreClasses
  /\ LET signals_data == generate_signals(strategy)
         results == Backtester_run(signals_data, backtester.initial_capital)
     IN /\ strategy' = [strategy EXCEPT !.data = signals_data]
        /\ backtester' = [backtester EXCEPT !.has_results = TRUE,
                                            !.results = results @@ backtester.results]
  /\ UNCHANGED <<bars, index, trades, metrics>>

\* Backtester.run(strategy)
Run ==
  /\ backtester.cls = "Backtester"
  /\ strategy.cls \in CoreClasses
  /\ LET signals_data == generate_signals(strategy)
         results == Backtester_run(signals_data, backtester.initial_capital)
     IN /\ strategy' = [strategy EXCEPT !.data = signals_data]
        /\ backtester' = [backtester EXCEPT !.has_results = TRUE,
                                            !.results = results]
  /\ UNCHANGED <<bars, index, trades, metrics>>

\* strategy.backtest()
Backtest ==
  /\ strategy.cls \in BaseClasses
  /\ LET data == BaseStrategy_backtest(strategy, backtester.initial_capital)
     IN strategy' = [strategy EXCEPT !.data = data]
  /\ UNCHANGED <<bars, index, backtester, trades, metrics>>

\* Backtester.get_trades()
GetTrades ==
  /\ backtester.cls = "Backtester"
  /\ trades' = [called |-> TRUE,
                had_results |-> backtester.has_results,
                rows |-> IF backtester.has_results
                         THEN Backtester_get_trades(index, backtester.results)
                         ELSE <<>>]
  /\ UNCHANGED <<bars, index, strategy, backtester, metrics>>

\* quant_a_module.Backtester.run(strategy_instance): the columns are added
\* to the strategy's own frame, which is what it returns
QARun ==
  /\ backtester.cls = "QA_Backtester"
  /\ strategy.cls \in QAClasses
  /\ LET df == QA_Backtester_run(QA_generate_signals(strategy),
                                 backtester.initial_capital)
     IN strategy' = [strategy EXCEPT !.data = df]
  /\ UNCHANGED <<bars, index, backtester, trades, metrics>>

Next ==
  \/ ConstructBuyHold
  \/ ConstructMomentum
  \/ ConstructRSI
  \/ ConstructCustom
  \/ Run
  \/ Backtest
  \/ GetTrades
  \/ QARun

Spec == Init /\ [][Next]_vars

(* ------------------- the metrics functions on their own ----------------- *)
\* the per-bar returns a price table with closes 1..MaxClose can show
ReturnValues ==
  {RSub(RDiv(R(b), R(a)), One) : a \in 1..MaxClose, b \in 1..MaxClose}

\* the return series a metrics function is given, the empty one included
ReturnSeries == UNION {[1..n -> ReturnValues] : n \in 0..MaxBars}

MetricsInit ==
  /\ bars = <<1>>
  /\ index = "integer"
  /\ strategy = NoStrategy
  /\ backtester = NewBacktester("Backtester", DefaultCapital)
  /\ trades = NoTrades
  /\ \E r \in ReturnSeries : metrics = [NoMetrics EXCEPT !.returns = Series(r)]

\* one call in a behaviour: the functions are pure and keep nothing
NotCalled == metrics.fn = ""

\* the call record after fn has returned value
Returned(fn, value) ==
  [metrics EXCEPT !.fn = fn, !.raised = "", !.value = value]

CalculateSharpe ==
  /\ NotCalled
  /\ metrics' =
       Returned("calculate_sharpe_ratio",
                [Sharpe |-> calculate_sharpe_ratio(metrics.returns)])
  /\ UNCHANGED <<bars, index, strategy, backtester, trades>>

CalculateMaxDrawdown ==
  /\ NotCalled
  /\ metrics' =
       Returned("calculate_max_drawdown",
                [MaxDrawdown |-> calculate_max_drawdown(
                                   calculate_cumulative_returns(metrics.returns))])
  /\ UNCHANGED <<bars, index, strategy, backtester, trades>>

CalculateVolatility ==
  /\ NotCalled
  /\ metrics' =
       Returned("calculate_volatility",
                [Volatility |-> calculate_volatility(metrics.returns)])
  /\ UNCHANGED <<bars, index, strategy, backtester, trades>>

CalculateSortino ==
  /\ NotCalled
  /\ metrics' =
       Returned("calculate_sortino_ratio",
                [Sortino |-> calculate_sortino_ratio(metrics.returns)])
  /\ UNCHANGED <<bars, index, strategy, backtester, trades>>

CalculateCalmar ==
  /\ NotCalled
  /\ metrics' =
       Returned("calculate_calmar_ratio",
                [Calmar |-> calculate_calmar_ratio(metrics.returns,
                              calculate_cumulative_returns(metrics.returns))])
  /\ UNCHANGED <<bars, index, strategy, backtester, trades>>

CalculateWinRate ==
  /\ NotCalled
  /\ metrics' =
       Returned("calculate_win_rate",
                [WinRate |-> calculate_win_rate(metrics.returns)])
  /\ UNCHANGED <<bars, index, strategy, backtester, trades>>

\* generate_performance_summary(prices, strategy_returns)
Summarize ==
  /\ NotCalled
  /\ metrics' =
       Returned("generate_performance_summary",
                generate_performance_summary(metrics.returns))
  /\ UNCHANGED <<bars, index, strategy, backtester, trades>>

\* generate_performance_summary(prices): the series is the returns of prices
SummarizePrices ==
  /\ NotCalled
  /\ \E prices \in BarSeries : metrics.returns = calculate_returns(prices)
  /\ metrics' = Returned("generate_performance_summary(prices)",
                          generate_performance_summary(metrics.returns))
  /\ UNCHANGED <<bars, index, strategy, backtester, trades>>

BacktesterSharpe ==
  /\ NotCalled
  /\ metrics' =
       Returned("_calculate_sharpe",
                [Sharpe |-> Backtester_calculate_sharpe(metrics.returns)])
  /\ UNCHANGED <<bars, index, strategy, backtester, trades>>

\* quant_a_module.generate_performance_summary: win_rate divides two Python
\* ints, len(...) / len(strategy_returns)
QASummarize ==
  /\ NotCalled
  /\ metrics' =
       IF Len(metrics.returns) = 0
       THEN [metrics EXCEPT !.fn = "QA_generate_performance_summary",
                            !.raised = "ZeroDivisionError",
                            !.value = <<>>]
       ELSE Returned("QA_generate_performance_summary",
                     QA_generate_performance_summary(metrics.returns))
  /\ UNCHANGED <<bars, index, strategy, backtester, trades>>

MetricsNext ==
  \/ CalculateSharpe
  \/ CalculateMaxDrawdown
  \/ CalculateVolatility
  \/ CalculateSortino
  \/ CalculateCalmar
  \/ CalculateWinRate
  \/ Summarize
  \/ SummarizePrices
  \/ BacktesterSharpe
  \/ QASummarize

MetricsSpec == MetricsInit /\ [][MetricsNext]_vars

(* ---------------- one Backtester and its queries, any index ------------- *)
\* five bars, enough for two round trips
LongClose == <<1, 2, 1, 2, 1>>
EngineBars == UNION {[1..n -> 1..MaxClose] : n \in 1..MaxBars} \cup {LongClose}

EngineInit ==
  /\ bars \in EngineBars
  /\ index \in IndexKinds
  /\ backtester = NewBacktester("Backtester", DefaultCapital)
  /\ strategy = NoStrategy
  /\ trades = NoTrades
  /\ metrics = NoMetrics

\* Backtester.get_summary_stats(): {} when there are no results
GetSummaryStats ==
  /\ backtester.cls = "Backtester"
  /\ metrics' =
       IF backtester.has_results
       THEN [returns |-> dropna(backtester.results.Strategy_Returns),
             fn |-> "get_summary_stats",
             raised |-> "",
             value |-> Backtester_get_summary_stats(index, backtester.results,
                                                    backtester.initial_capital)]
       ELSE [returns |-> <<>>, fn |-> "get_summary_stats", raised |-> "",
             value |-> <<>>]
  /\ UNCHANGED <<bars, index, strategy, backtester, trades>>

EngineNext ==
  \/ ConstructCustom
  \/ Run
  \/ GetTrades
  \/ GetSummaryStats

EngineSpec == EngineInit /\ [][EngineNext]_vars

(* ------------- one Backtester, run again and with other strategies ------ *)
RerunBars == {LongClose, ScenarioClose}

RerunInit ==
  /\ bars \in RerunBars
  /\ index = "daily"
  /\ backtester = NewBacktester("Backtester", DefaultCapital)
  /\ strategy = NoStrategy
  /\ trades = NoTrades
  /\ metrics = NoMetrics

\* the caller builds another strategy on the same df, to pass it to run
ConstructAnother ==
  /\ strategy # NoStrategy
  /\ \/ strategy' = NewStrategy("BuyHoldStrategy", <<>>, bars)
     \/ \E sw \in Windows, lw \in Windows :
          strategy' = NewStrategy("MomentumStrategy", <<sw, lw>>, bars)
     \/ \E period \in Windows, th \in Thresholds :
          strategy' = NewStrategy("RSIStrategy", <<period, th[1], th[2]>>, bars)
  /\ UNCHANGED <<bars, index, backtester, trades, metrics>>

RerunNext ==
  \/ ConstructBuyHold
  \/ ConstructMomentum
  \/ ConstructRSI
  \/ ConstructAnother
  \/ Run
  \/ GetTrades

RerunSpec == RerunInit /\ [][RerunNext]_vars

(* ------------------------------- claims -------------------------------- *)
\* Close[t]/Close[t-1] - 1 from the caller's prices (t is 1-based, t >= 2)
ExpectedReturn(t) == Norm(bars[t] - bars[t - 1], bars[t - 1])

\* the exposure column of a result frame: Position, or quant_a's Signal
Exposure(frame) ==
  IF HasCol(frame, "Signal") THEN frame.Signal ELSE frame.Position

NBars == Len(bars)

\* C1: in every result frame (Backtester.run, BaseStrategy.backtest,
\* quant_a_module.Backtester.run) and at every bar t >= 1,
\* Returns[t] = Close[t]/Close[t-1] - 1 and
\* Strategy_Returns[t] = Position[t-1] * Returns[t]; Position[t] is not used.
C1_LaggedStrategyReturns ==
  \A res \in ResultFrames :
    \A t \in 2..NBars :
      /\ res.Returns[t] = ExpectedReturn(t)
      /\ res.Strategy_Returns[t] =
           (IF Exposure(res)[t - 1] = One THEN ExpectedReturn(t) ELSE Zero)

\* C1 witness: a run where the lag shows: flat on bar t, invested on bar
\* t-1, a price move on bar t, and bar t earns it
C1_Witness ==
  /\ RunDone
  /\ \E t \in 2..NBars :
       /\ backtester.results.Position[t] = Zero
       /\ backtester.results.Position[t - 1] = One
       /\ backtester.results.Strategy_Returns[t] # Zero
       /\ IsFinite(backtester.results.Strategy_Returns[t])

\* C2 (as claimed): after Backtester.run, Strategy_Returns at the first bar
\* is the number 0, whatever Position[0] is.
C2_FirstStrategyReturnIsZero ==
  RunDone => backtester.results.Strategy_Returns[1] = Zero

\* C3 (as claimed, here for a positive initial_capital): after a run or a
\* backtest on a non-empty series, Portfolio_Value at the first bar is
\* initial_capital.
C3_FirstPortfolioValueIsCapital ==
  backtester.initial_capital > 0 =>
    \A res \in CoreResultFrames :
      res.Portfolio_Value[1] = R(backtester.initial_capital)

\* C4 (as claimed, here for a positive initial_capital): Buy-and-Hold
\* through Backtester.run has Portfolio_Value[t] =
\* initial_capital * Close[t] / Close[0] at every bar, t = 0 included.
C4_BuyHoldFollowsPrice ==
  (/\ RunDone
   /\ strategy.cls = "BuyHoldStrategy"
   /\ backtester.initial_capital > 0) =>
    \A t \in 1..NBars :
      backtester.results.Portfolio_Value[t] =
        Norm(backtester.initial_capital * bars[t], bars[1])

\* C5 (as claimed): a Backtester with initial_capital <= 0 never produces a
\* result table.
C5_NonPositiveCapitalRejected ==
  backtester.initial_capital <= 0 =>
    ResultFrames = {}

\* C6 (as claimed, here for a positive initial_capital): in the result of
\* Backtester.run, at every bar, Running_Max is the maximum of
\* Portfolio_Value so far (inclusive), Drawdown =
\* (Portfolio_Value - Running_Max) / Running_Max <= 0, and Drawdown = 0
\* where Portfolio_Value is the running maximum.
C6_DrawdownContract ==
  (RunDone /\ backtester.initial_capital > 0) =>
    \A t \in 1..NBars :
      LET pv == backtester.results.Portfolio_Value
          rm == backtester.results.Running_Max
          dd == backtester.results.Drawdown
      IN /\ \E u \in 1..t : REq(rm[t], pv[u])
         /\ \A u \in 1..t : RLe(pv[u], rm[t])
         /\ REq(dd[t], RDiv(RSub(pv[t], rm[t]), rm[t]))
         /\ RLe(dd[t], Zero)
         /\ (\A u \in 1..t : RLe(pv[u], pv[t])) => REq(dd[t], Zero)

\* the scenario of section 8: Close = [100, 102, 101, 105, 103] and
\* Position = [0, 0, 1, 1, 0] through Backtester.run
ScenarioPosition == <<Zero, Zero, One, One, Zero>>
ScenarioRun ==
  /\ RunDone
  /\ bars = ScenarioClose
  /\ strategy.cls = "Custom"
  /\ backtester.results.Position = ScenarioPosition

\* C7 (as claimed): the scenario gives Strategy_Returns =
\* [0, 0, 0, 105/101 - 1, 0].
C7_ScenarioAsClaimed ==
  ScenarioRun =>
    backtester.results.Strategy_Returns = <<Zero, Zero, Zero, Norm(4, 101), Zero>>

\* C7 (amended): the scenario gives Strategy_Returns[1..4] =
\* [0, 0, 105/101 - 1, 103/105 - 1]: bar 3's position earns bar 4's return.
C7_ScenarioAmended ==
  ScenarioRun =>
    /\ backtester.results.Strategy_Returns[2] = Zero
    /\ backtester.results.Strategy_Returns[3] = Zero
    /\ backtester.results.Strategy_Returns[4] = Norm(4, 101)
    /\ backtester.results.Strategy_Returns[5] = Norm(-2, 105)

\* C7 witness: the scenario has been run
C7_Witness == ScenarioRun /\ backtester.results.Strategy_Returns[5] # Zero

\* an RSI strategy whose generate_signals has run
RSISignalsReady ==
  /\ strategy.cls \in {"RSIStrategy", "QA_RSIStrategy"}
  /\ HasCol(strategy.data, "RSI")

\* C8 (as claimed): wherever RSI is defined, RSI < oversold gives
\* Position 1 and RSI > overbought gives Position 0.
C8_ThresholdsDecidePosition ==
  RSISignalsReady =>
    \A t \in 1..NBars :
      LET rsi == strategy.data.RSI[t]
          pos == Exposure(strategy.data)[t]
      IN /\ RLt(rsi, R(strategy.params[2])) => pos = One
         /\ RGt(rsi, R(strategy.params[3])) => pos = Zero

\* C9 (as claimed): at every bar t >= 1 with oversold <= RSI <= overbought
\* the position is the one of bar t-1.
C9_BandCarriesPosition ==
  RSISignalsReady =>
    \A t \in 2..NBars :
      LET rsi == strategy.data.RSI[t]
          pos == Exposure(strategy.data)
      IN (RLe(R(strategy.params[2]), rsi) /\ RLe(rsi, R(strategy.params[3])))
           => pos[t] = pos[t - 1]

\* bars (1-based) where Position goes 0 -> 1, resp. 1 -> 0
Opens(pos) == {t \in 2..Len(pos) : pos[t - 1] = Zero /\ pos[t] = One}
Closes(pos) == {t \in 2..Len(pos) : pos[t - 1] = One /\ pos[t] = Zero}
\* the 0 -> 1 transitions that a later 1 -> 0 transition follows
ClosedOpens(pos) == {t \in Opens(pos) : \E u \in Closes(pos) : u > t}

\* get_trades was called on a Backtester that had results
TradesExtracted == trades.called /\ trades.had_results

\* C10: get_trades returns as many trades as there are 0 -> 1 transitions of
\* Position followed by a later 1 -> 0 transition: nothing for a position
\* still open at the last bar, nothing for a constant column.
C10_TradeCount ==
  TradesExtracted =>
    Len(trades.rows) = Cardinality(ClosedOpens(backtester.results.Position))

\* C10 witness: one completed trade, and a later entry left open
C10_Witness ==
  /\ TradesExtracted
  /\ Len(trades.rows) = 1
  /\ Cardinality(Opens(backtester.results.Position)) = 2

\* C11: no call changes the frame the caller passed in (it keeps its one
\* column Close and its values); a caller-supplied Position column is
\* unchanged after Backtester.run, which adds its columns to a copy; every
\* column of every result frame has one row per input bar.
C11_CallerFrameUntouched ==
  /\ CallerFrame = [Close |-> CloseColumn(bars)]
  /\ (strategy.cls = "Custom" /\ RunDone) =>
       /\ DOMAIN strategy.data = {"Close", "Position"}
       /\ strategy.data.Position = strategy.params
  /\ \A res \in ResultFrames :
       \A col \in DOMAIN res : Len(res[col]) = NBars

\* C11 witness: a run has added its eight columns to the Backtester's frame
C11_Witness ==
  /\ RunDone
  /\ Cardinality(DOMAIN backtester.results) >= 10
  /\ NBars >= 2

\* sums of the gains and of the losses of the period bars ending at bar t
\* (1-based), from the caller's prices; the first bar has no move
Move(t) == IF t = 1 THEN 0 ELSE bars[t] - bars[t - 1]
RECURSIVE GainSum(_, _)
GainSum(t, k) ==
  IF k = 0 THEN 0
  ELSE (IF Move(t) > 0 THEN Move(t) ELSE 0) + GainSum(t - 1, k - 1)
RECURSIVE LossSum(_, _)
LossSum(t, k) ==
  IF k = 0 THEN 0
  ELSE (IF Move(t) < 0 THEN -Move(t) ELSE 0) + LossSum(t - 1, k - 1)

\* C13: at every bar whose rolling average loss over the period is 0 while
\* the rolling average gain is > 0, RSI is exactly 100 (both RSI
\* implementations).
C13_RSISaturates ==
  RSISignalsReady =>
    \A t \in strategy.params[1]..NBars :
      (LossSum(t, strategy.params[1]) = 0 /\ GainSum(t, strategy.params[1]) > 0)
        => strategy.data.RSI[t] = R(100)

\* C13 witness: a window with gains and no loss
C13_Witness ==
  /\ RSISignalsReady
  /\ \E t \in strategy.params[1]..NBars :
       /\ LossSum(t, strategy.params[1]) = 0
       /\ GainSum(t, strategy.params[1]) > 0
       /\ strategy.data.RSI[t] = R(100)

\* a crossover strategy whose generate_signals has run
MomentumSignalsReady ==
  /\ strategy.cls \in {"MomentumStrategy", "QA_MomentumStrategy"}
  /\ HasCol(strategy.data, "SMA_Short")

\* sum of the k closes ending at bar t (1-based)
RECURSIVE CloseSum(_, _)
CloseSum(t, k) == IF k = 0 THEN 0 ELSE bars[t] + CloseSum(t - 1, k - 1)

\* C19: the crossover position is 1 exactly on the bars where both averages
\* are defined and the short one is strictly greater, 0 on every other bar.
C19_CrossoverPosition ==
  MomentumSignalsReady =>
    LET sw == strategy.params[1]
        lw == strategy.params[2]
    IN \A t \in 1..NBars :
         Exposure(strategy.data)[t] =
           (IF /\ t >= sw
               /\ t >= lw
               /\ CloseSum(t, sw) * lw > CloseSum(t, lw) * sw
            THEN One ELSE Zero)

\* C19 witness: a bar with position 1 followed by a bar with position 0
C19_Witness ==
  /\ MomentumSignalsReady
  /\ \E t \in 2..NBars :
       /\ Exposure(strategy.data)[t - 1] = One
       /\ Exposure(strategy.data)[t] = Zero

\* a strategies/ strategy whose generate_signals has run
CoreSignalsReady ==
  /\ strategy.cls \in {"MomentumStrategy", "RSIStrategy"}
  /\ HasCol(strategy.data, "Position")

\* C20: with fewer bars than long_window (crossover) or than period (RSI),
\* generate_signals returns a Position column of the input's length that is
\* 0 on every bar; the RSI position is 0 on every bar before the first bar
\* where RSI is defined.
C20_ShortHistoryIsFlat ==
  CoreSignalsReady =>
    LET pos == strategy.data.Position
        window == IF strategy.cls = "MomentumStrategy"
                  THEN strategy.params[2] ELSE strategy.params[1]
    IN /\ Len(pos) = NBars
       /\ NBars < window => \A t \in 1..NBars : pos[t] = Zero
       /\ strategy.cls = "RSIStrategy" =>
            \A t \in 1..NBars :
              (\A u \in 1..t : IsNaN(strategy.data.RSI[u])) => pos[t] = Zero

\* C20 witness: an RSI strategy given fewer bars than its period
C20_Witness ==
  /\ CoreSignalsReady
  /\ strategy.cls = "RSIStrategy"
  /\ NBars < strategy.params[1]
  /\ \A t \in 1..NBars : strategy.data.Position[t] = Zero

(* ------------------------- claims on the metrics ------------------------ *)
SummaryFns ==
  {"generate_performance_summary", "generate_performance_summary(prices)",
   "QA_generate_performance_summary"}

AllZero == \A t \in 1..Len(metrics.returns) : metrics.returns[t] = Zero

\* C12 (as claimed): the summary of an empty return series is returned, not
\* raised, and each of its ten metrics is 0 (both summary functions).
C12_EmptySummaryIsZero ==
  (metrics.fn \in SummaryFns /\ Len(metrics.returns) = 0) =>
    /\ metrics.raised = ""
    /\ metrics.value =
         [TotalReturn |-> Zero, AnnualizedReturn |-> Zero,
          Volatility |-> RealZero, Sharpe |-> RealZero, Sortino |-> RealZero,
          MaxDrawdown |-> Zero, Calmar |-> Zero, WinRate |-> Zero,
          BestDay |-> Zero, WorstDay |-> Zero]

\* C14: calculate_max_drawdown of the cumulative returns of a return series
\* is <= 0, and is 0 when the cumulative returns never fall (no return after
\* the first is negative).
C14_MaxDrawdownNonPositive ==
  metrics.fn = "calculate_max_drawdown" =>
    /\ RLe(metrics.value.MaxDrawdown, Zero)
    /\ (\A t \in 2..Len(metrics.returns) : RLe(Zero, metrics.returns[t]))
         => metrics.value.MaxDrawdown = Zero

\* C14 witness: a fall after a rise gives a drawdown < 0
C14_Witness ==
  /\ metrics.fn = "calculate_max_drawdown"
  /\ Len(metrics.returns) >= 2
  /\ RGt(metrics.returns[1], Zero)
  /\ RLt(metrics.value.MaxDrawdown, Zero)

\* C15 (as claimed): for a return series of zeros of any length >= 1,
\* Sharpe, Sortino, Volatility, Max Drawdown and Win Rate are 0.
C15_FlatSeriesIsZero ==
  (Len(metrics.returns) >= 1 /\ AllZero) =>
    /\ metrics.fn = "calculate_sharpe_ratio" => metrics.value.Sharpe = RealZero
    /\ metrics.fn = "calculate_sortino_ratio" =>
         metrics.value.Sortino = RealZero
    /\ metrics.fn = "calculate_volatility" =>
         metrics.value.Volatility = RealZero
    /\ metrics.fn = "calculate_max_drawdown" =>
         metrics.value.MaxDrawdown = Zero
    /\ metrics.fn = "calculate_win_rate" => metrics.value.WinRate = Zero

\* mean and sample variance (n - 1) of a return series, from its sums
SumOf(s) == SumRange(s, 1, Len(s))
SumSq(s) == SumRange(Series([t \in 1..Len(s) |-> RMul(s[t], s[t])]), 1, Len(s))
MeanOf(s) == RDiv(SumOf(s), R(Len(s)))
SampleVar(s) ==
  RDiv(RSub(SumSq(s), RDiv(RMul(SumOf(s), SumOf(s)), R(Len(s)))),
       R(Len(s) - 1))
DailyRiskFree == <<1, 12600>>

\* C16 (as claimed): the Sharpe ratio is 0 for an empty series and for a
\* series whose observations are all equal (one observation included);
\* otherwise it is sqrt(252) * mean(excess) / std(excess), i.e.
\* mean(excess) * sqrt(252 / var(r)).
C16_SharpeGuarded ==
  metrics.fn \in {"calculate_sharpe_ratio", "_calculate_sharpe"} =>
    LET r == metrics.returns
    IN IF \A i, j \in 1..Len(r) : r[i] = r[j]
       THEN metrics.value.Sharpe = RealZero
       ELSE /\ metrics.value.Sharpe.c = RSub(MeanOf(r), DailyRiskFree)
            /\ metrics.value.Sharpe.rad = RDiv(R(252), SampleVar(r))

\* the returns below the daily risk-free rate
Downside(r) == SelectSeq(r, LAMBDA x : RLt(x, DailyRiskFree))

\* C17 (as claimed): the Sortino ratio is 0 when no return is below the
\* daily risk-free rate or when those returns have a standard deviation of
\* 0; in every other case it is the number sqrt(252) * mean(excess) /
\* std(negative excess returns).
C17_SortinoGuarded ==
  metrics.fn = "calculate_sortino_ratio" =>
    LET r == metrics.returns
        down == Downside(r)
    IN IF Len(down) = 0 \/ (Len(down) >= 2 /\ SampleVar(down) = Zero)
       THEN metrics.value.Sortino = RealZero
       ELSE /\ metrics.value.Sortino # RealNaN
            /\ metrics.value.Sortino.c = RSub(MeanOf(r), DailyRiskFree)
            /\ metrics.value.Sortino.rad = RDiv(R(252), SampleVar(down))

\* C18 (as claimed): the Calmar ratio is Annualized Return / |Max Drawdown|,
\* and 0 when Max Drawdown is 0 or the series is empty (calculate_calmar_ratio
\* and the Calmar Ratio of quant_a_module's summary).
C18_CalmarGuarded ==
  /\ metrics.fn = "calculate_calmar_ratio" =>
       LET r == metrics.returns
           max_dd == calculate_max_drawdown(calculate_cumulative_returns(r))
       IN metrics.value.Calmar =
            (IF Len(r) = 0 \/ max_dd = Zero THEN Zero
             ELSE RDiv(RMul(MeanOf(r), R(25200)), RAbs(max_dd)))
  /\ metrics.fn = "QA_generate_performance_summary" =>
       /\ metrics.raised = ""
       /\ metrics.value.Calmar =
            (IF metrics.value.MaxDrawdown = Zero THEN Zero
             ELSE RDiv(metrics.value.AnnualizedReturn,
                       RAbs(metrics.value.MaxDrawdown)))

(* -------------------------- claims on the trades ------------------------ *)
\* the bar (1-based row) that carries an index label
BarAt(label) == CHOOSE t \in 1..NBars : IndexLabel(index, t) = label

\* the Position column the trades were extracted from
TradedPosition == backtester.results.Position

\* C21: each trade has as entry the label and Close of a bar where Position
\* went 0 -> 1, as exit the label and Close of the first later bar where it
\* went 1 -> 0, and as return (exit - entry) / entry in percent.
C21_TradeFields ==
  TradesExtracted =>
    \A i \in 1..Len(trades.rows) :
      LET tr == trades.rows[i]
          e == BarAt(tr.EntryDate)
          x == BarAt(tr.ExitDate)
      IN /\ \E t \in 1..NBars : IndexLabel(index, t) = tr.EntryDate
         /\ \E t \in 1..NBars : IndexLabel(index, t) = tr.ExitDate
         /\ e \in Opens(TradedPosition)
         /\ x \in Closes(TradedPosition)
         /\ x > e
         /\ \A u \in (e + 1)..(x - 1) : u \notin Closes(TradedPosition)
         /\ tr.EntryPrice = R(bars[e])
         /\ tr.ExitPrice = R(bars[x])
         /\ tr.ReturnPct = Norm(100 * (bars[x] - bars[e]), bars[e])

\* C21 witness: a trade that lost money
C21_Witness ==
  /\ TradesExtracted
  /\ \E i \in 1..Len(trades.rows) :
       /\ RLt(trades.rows[i].ReturnPct, Zero)
       /\ trades.rows[i].EntryPrice # trades.rows[i].ExitPrice

\* C22 (as claimed): the Duration of each trade is the time elapsed between
\* its entry and its exit label: in days for a DatetimeIndex, in bars for a
\* RangeIndex.
C22_DurationIsElapsedTime ==
  TradesExtracted =>
    \A i \in 1..Len(trades.rows) :
      LET tr == trades.rows[i]
      IN IF index = "integer"
         THEN tr.Duration = tr.ExitDate - tr.EntryDate
         ELSE tr.Duration * MinutesPerDay = tr.ExitDate - tr.EntryDate

\* C23: every trade is entered strictly before it is exited, and a trade is
\* exited strictly before the next one in the sequence is entered.
C23_TradesChronological ==
  TradesExtracted =>
    /\ \A i \in 1..Len(trades.rows) :
         trades.rows[i].EntryDate < trades.rows[i].ExitDate
    /\ \A i \in 1..(Len(trades.rows) - 1) :
         trades.rows[i].ExitDate < trades.rows[i + 1].EntryDate

\* C23 witness: two trades
C23_Witness ==
  /\ TradesExtracted
  /\ Len(trades.rows) = 2
  /\ trades.rows[1].ExitDate < trades.rows[2].EntryDate

\* C27: for a trade entered at bar e and exited at bar x (0-based), e >= 1,
\* Position[e-1] = 0, Position is 1 on e..x-1 and Position[x] = 0; a position
\* that is 1 on bar 0 gives no trade at its first close.
C27_TradeBars ==
  TradesExtracted =>
    LET pos == TradedPosition
        flat == {t \in 1..NBars : pos[t] = Zero}
    IN /\ \A i \in 1..Len(trades.rows) :
            LET e == BarAt(trades.rows[i].EntryDate)
                x == BarAt(trades.rows[i].ExitDate)
            IN /\ e >= 2
               /\ pos[e - 1] = Zero
               /\ \A u \in e..(x - 1) : pos[u] = One
               /\ pos[x] = Zero
       /\ (pos[1] = One /\ flat # {}) =>
            \A i \in 1..Len(trades.rows) :
              BarAt(trades.rows[i].ExitDate) # CHOOSE t \in flat :
                                                 \A u \in flat : t <= u

\* C27 witness: invested on bar 0, closed, and a later round trip reported
C27_Witness ==
  /\ TradesExtracted
  /\ TradedPosition[1] = One
  /\ Len(trades.rows) = 1

\* get_summary_stats returned the statistics of a run
StatsReturned ==
  metrics.fn = "get_summary_stats" /\ DOMAIN metrics.value # {}

\* C29: before any run get_trades returns no row and get_summary_stats an
\* empty mapping, neither raises and the Backtester is as constructed; after
\* a run the Number of Trades of get_summary_stats is the number of rows
\* get_trades returns (the closed round trips of the Position column).
C29_NoResultsBeforeRun ==
  /\ ~RunDone =>
       /\ trades.called => trades.rows = <<>>
       /\ metrics.fn = "get_summary_stats" =>
            (DOMAIN metrics.value = {} /\ metrics.raised = "")
       /\ backtester = NewBacktester("Backtester", backtester.initial_capital)
  /\ StatsReturned =>
       /\ metrics.raised = ""
       /\ metrics.value.NumberOfTrades =
            Len(Backtester_get_trades(index, backtester.results))
       /\ metrics.value.NumberOfTrades =
            Cardinality(ClosedOpens(TradedPosition))
       /\ TradesExtracted => metrics.value.NumberOfTrades = Len(trades.rows)

\* C29 witness: both queries answered before the run and again after it,
\* with a trade to count
C29_Witness ==
  /\ StatsReturned
  /\ TradesExtracted
  /\ metrics.value.NumberOfTrades = 1
  /\ Opens(TradedPosition) # ClosedOpens(TradedPosition)

(* -------------------------- claims on the signals ----------------------- *)
\* a BuyHold, crossover or RSI strategy of strategies/ whose
\* generate_signals has run
BaseSignalsReady ==
  /\ strategy.cls \in BaseClasses
  /\ HasCol(strategy.data, "Position")

\* what generate_signals gives the same strategy on the first t bars only
PositionOnPrefix(t) ==
  generate_signals(NewStrategy(strategy.cls, strategy.params,
                               SubSeq(bars, 1, t))).Position

\* C25: the positions on bars 0..t are those the same strategy produces on
\* the bar series cut after bar t, so two series that agree on bars 0..t get
\* the same positions on bars 0..t (the three strategies of strategies/).
C25_NoLookahead ==
  BaseSignalsReady =>
    \A t \in 1..NBars :
      SubSeq(strategy.data.Position, 1, t) = PositionOnPrefix(t)

\* C25 witness: a position that changes on the last bar
C25_Witness ==
  /\ BaseSignalsReady
  /\ NBars >= 3
  /\ strategy.data.Position[NBars] # strategy.data.Position[NBars - 1]
  /\ SubSeq(strategy.data.Position, 1, NBars - 1) = PositionOnPrefix(NBars - 1)

SharedColumns ==
  {"Returns", "Strategy_Returns", "Cumulative_Returns",
   "Cumulative_Strategy_Returns", "Portfolio_Value"}

\* C28: once the same strategy has been through Backtester.run and through
\* its own backtest(), with the same bars and initial_capital, the two
\* frames have the same cells (an undefined cell in both counts as equal) in
\* Returns, Strategy_Returns, Cumulative_Returns,
\* Cumulative_Strategy_Returns and Portfolio_Value.
C28_BacktestEqualsRun ==
  (RunDone /\ BacktestDone) =>
    \A col \in SharedColumns : backtester.results[col] = strategy.data[col]

\* C28 witness: both have run, and the strategy earned a return on some bar
C28_Witness ==
  /\ RunDone
  /\ BacktestDone
  /\ \E t \in 1..NBars :
       /\ IsFinite(strategy.data.Strategy_Returns[t])
       /\ strategy.data.Strategy_Returns[t] # Zero
       /\ strategy.data.Strategy_Returns[t] =
            backtester.results.Strategy_Returns[t]

(* ------------------------- claims on running again ---------------------- *)
\* the table a new Backtester gives for a new strategy object of the same
\* class and parameters on the caller's bars
FreshRun(s) ==
  Backtester_run(generate_signals(NewStrategy(s.cls, s.params, bars)),
                 backtester.initial_capital)

\* C24: every Backtester.run returns the table of a fresh run of the
\* strategy it is given, whatever was run before: a second run of the same
\* strategy returns a table equal to the first, and a run of another
\* strategy keeps no column of the earlier one. Every get_trades leaves the
\* Backtester unchanged, and a call that follows a call on the same table
\* returns the same rows.
C24_NoHiddenState ==
  [][/\ Run => /\ backtester'.results = FreshRun(strategy)
               /\ (RunDone /\ backtester.results = FreshRun(strategy))
                    => backtester'.results = backtester.results
     /\ GetTrades =>
          /\ backtester' = backtester
          /\ (TradesExtracted /\ RunDone
              /\ trades.rows = Backtester_get_trades(index, backtester.results))
               => trades' = trades
    ]_vars

\* a table that was run again with another strategy: the rows get_trades
\* returned for the earlier strategy's table are still with the caller, and
\* differ from the trades of the table the Backtester now holds, which is
\* the table of the strategy last run
C24_Witness ==
  /\ RunDone
  /\ TradesExtracted
  /\ HasCol(strategy.data, "Position")
  /\ backtester.results = FreshRun(strategy)
  /\ trades.rows # Backtester_get_trades(index, backtester.results)

(* ------------------------- claims on the drawdown peak ------------------ *)
\* the first row of a column that holds a value
HasValue(col) == \E t \in 1..Len(col) : ~IsNaN(col[t])
FirstValued(col) ==
  CHOOSE t \in 1..Len(col) :
    /\ ~IsNaN(col[t])
    /\ \A u \in 1..(t - 1) : IsNaN(col[u])

\* calculate_max_drawdown of the cumulative series of [r0, 0, 0, ...] with
\* r0 < 0 is 0
C30_MetricsHalf ==
  (/\ metrics.fn = "calculate_max_drawdown"
   /\ Len(metrics.returns) >= 1
   /\ RLt(metrics.returns[1], Zero)
   /\ \A t \in 2..Len(metrics.returns) : metrics.returns[t] = Zero)
    => metrics.value.MaxDrawdown = Zero

\* in the table of Backtester.run, the Drawdown at the first bar that has a
\* Portfolio_Value is 0
C30_RunHalf ==
  (RunDone /\ HasValue(backtester.results.Portfolio_Value)) =>
    backtester.results.Drawdown[
      FirstValued(backtester.results.Portfolio_Value)] = Zero

\* C30 (as claimed): the drawdown peak starts at the first computed value:
\* calculate_max_drawdown of the cumulative series of returns [r0, 0, 0, ...]
\* with r0 < 0 is 0, and in Backtester.run the Drawdown at the first bar that
\* has a Portfolio_Value is 0.
C30_PeakStartsAtFirstValue == C30_MetricsHalf /\ C30_RunHalf
====
